---- MODULE Spec2Model ----
(***************************************************************************)
(* Model of the A3 report exporter: the typography normaliser              *)
(* (src/services/formatService.ts) and the PDF export with its font        *)
(* loading, row measurement and pagination (src/services/pdfService.ts).   *)
(*                                                                         *)
(* Text is a sequence of one-character tokens.  ASCII punctuation and      *)
(* digits stand for themselves; lower-case Latin letters stand for         *)
(* themselves; Cyrillic letters are written as upper-case transliterations *)
(* ("V" is the letter ve, "G" the letter ghe, "CH" che, "YA" ya, ...).     *)
(* Special characters:                                                     *)
(*   "nl" U+000A line feed        "nb" U+00A0 no-break space               *)
(*   "wj" U+2060 word joiner      "nh" U+2011 non-breaking hyphen          *)
(*   "nd" U+2013 en dash          "md" U+2014 em dash                      *)
(*   "No" U+2116 numero sign      "q"  U+0022 quotation mark               *)
(*   "lq" U+00AB  "rq" U+00BB     "sup2" U+00B2  "sup3" U+00B3             *)
(* Lengths are in hundredths of a millimetre.                              *)
(***************************************************************************)
EXTENDS Integers, Sequences, FiniteSets, TLC

Max(S) == CHOOSE x \in S : \A y \in S : y <= x

(***************************************************************************)
(* Character classes of the JavaScript regular expressions.                *)
(***************************************************************************)
\* \s : white space, which in JavaScript includes U+00A0 and line feed
WS == {" ", "nl", "nb"}

\* \d
Digits == {"0", "1", "2", "3", "4", "5", "6", "7", "8", "9"}

\* \w without the u flag: ASCII letters, digits and underscore only;
\* Cyrillic letters are not word characters
\* ("LA", "LU", "LT", "LO" are the Latin capitals of the placeholder AUTO)
WordChars == Digits \cup {"a", "d", "e", "n", "p", "r", "_", "LA", "LU", "LT", "LO"}

\* [\s\( ] : the characters allowed before a quote, preposition or
\* leading abbreviation
Delims == WS \cup {"("}

\* the last index of the longest run of characters of Cls starting at i
\* (i - 1 when s[i] is not in Cls): a greedy Cls* at position i
RECURSIVE RunEnd(_, _, _)
RunEnd(s, i, Cls) ==
  IF i >= 1 /\ i <= Len(s) /\ s[i] \in Cls THEN RunEnd(s, i + 1, Cls) ELSE i - 1

\* the literal w occurs in s at position i
HasAt(s, i, w) ==
  /\ i >= 1
  /\ i + Len(w) - 1 <= Len(s)
  /\ \A k \in 1..Len(w) : s[i + k - 1] = w[k]

\* \b at the gap before position i (between s[i-1] and s[i])
WordBoundary(s, i) ==
  LET before == i > 1 /\ i - 1 <= Len(s) /\ s[i - 1] \in WordChars
      after  == i >= 1 /\ i <= Len(s) /\ s[i] \in WordChars
  IN  before # after

\* (^|[\s\( ]) tried at position i: the positions at which the rest
\* of the pattern may start, in the order the alternatives are tried
BodyStarts(s, i) ==
  (IF i = 1 THEN <<1>> ELSE <<>>) \o
  (IF s[i] \in Delims THEN <<i + 1>> ELSE <<>>)

NoMatch == [e |-> 0, r |-> <<>>]

\* String.prototype.trim
\* (the text as it is, white space included)
asIs(s) == s

\* String.prototype.trim
trim(s) ==
  IF \A k \in 1..Len(s) : s[k] \in WS THEN <<>>
  ELSE LET a == CHOOSE k \in 1..Len(s) :
                  s[k] \notin WS /\ \A j \in 1..(k - 1) : s[j] \in WS
           b == CHOOSE k \in 1..Len(s) :
                  s[k] \notin WS /\ \A j \in (k + 1)..Len(s) : s[j] \in WS
       IN  SubSeq(s, a, b)

(***************************************************************************)
(* The word lists of formatRussianText.                                    *)
(***************************************************************************)
preps ==
  { <<"V">>, <<"V", "O">>, <<"B", "E", "Z">>, <<"D", "O">>, <<"I", "Z">>,
    <<"K">>, <<"K", "O">>, <<"N", "A">>, <<"N", "A", "D">>, <<"O">>,
    <<"O", "B">>, <<"O", "B", "O">>, <<"O", "T">>, <<"O", "T", "O">>,
    <<"P", "O">>, <<"P", "O", "D">>, <<"P", "O", "D", "O">>,
    <<"P", "R", "I">>, <<"P", "R", "O">>, <<"S">>, <<"S", "O">>, <<"U">>,
    <<"CH", "E", "R", "E", "Z">>, <<"D", "L", "YA">>, <<"Z", "A">>, <<"I">>,
    <<"A">>, <<"N", "O">>, <<"D", "A">>, <<"I", "Z", "-", "Z", "A">>,
    <<"I", "Z", "-", "P", "O", "D">>, <<"I", "L", "I">>, <<"K", "A", "K">>,
    <<"T", "A", "K">>, <<"p", "r", "e", "d">> }

leadAbbrs ==
  { <<"G">>, <<"U", "L">>, <<"D">>, <<"K", "O", "R", "P">>,
    <<"S", "T", "R">>, <<"K", "V">>, <<"P", "R", "-", "T">>, <<"P", "R">>,
    <<"N", "A", "B">>, <<"B", "-", "R">>, <<"SH">>, <<"O", "F">>,
    <<"T", "E", "L">>, <<"P", "G", "T">>, <<"S">>, <<"P", "O", "S">>,
    <<"O", "B", "L">>, <<"R", "-", "N">>, <<"R", "-", "n", "e">> }

trailAbbrs ==
  { <<"G">>, <<"L">>, <<"M">>, <<"K", "M">>, <<"SH", "T">>,
    <<"R", "U", "B">>, <<"K", "O", "P">>, <<"CH", "E", "L">>,
    <<"T", "Y", "S">>, <<"M", "L", "N">>, <<"M", "L", "R", "D">> }

\* the words of list L that occur at position j of s followed by a
\* character of Next
WordsAt(s, j, L, Next) ==
  LET ends == {n \in 1..(Len(s) - j) : s[j + n] \in Next}
  IN  {w \in {SubSeq(s, j, j + n - 1) : n \in ends} : w \in L}

(***************************************************************************)
(* One match attempt of each global replace at position i of s: the index  *)
(* e of the last matched character and the replacement r, or NoMatch.      *)
(***************************************************************************)
\* /м2(\b|$)/ and /м3(\b|$)/
UnitMatch(s, i, digit, sup) ==
  IF HasAt(s, i, <<"M", digit>>) /\ (WordBoundary(s, i + 2) \/ i + 1 = Len(s))
  THEN [e |-> i + 1, r |-> <<"M", sup>>]
  ELSE NoMatch

\* /(^|[\s\( ])"/  ->  $1«
OpenQuoteMatch(s, i) ==
  LET c == SelectSeq(BodyStarts(s, i), LAMBDA j : HasAt(s, j, <<"q">>))
  IN  IF c = <<>> THEN NoMatch
      ELSE [e |-> c[1], r |-> SubSeq(s, i, c[1] - 1) \o <<"lq">>]

\* /"/  ->  »
CloseQuoteMatch(s, i) ==
  IF s[i] = "q" THEN [e |-> i, r |-> <<"rq">>] ELSE NoMatch

\* (^|[\s\( ])(preps)(\s+)  ->  $1$2 nbsp
prepMatch(s, i) ==
  LET c == SelectSeq(BodyStarts(s, i),
                     LAMBDA j : WordsAt(s, j, preps, WS) # {})
  IN  IF c = <<>> THEN NoMatch
      ELSE LET j == c[1]
               w == CHOOSE x \in WordsAt(s, j, preps, WS) : TRUE
           IN  [e |-> RunEnd(s, j + Len(w), WS),
                r |-> SubSeq(s, i, j - 1) \o w \o <<"nb">>]

\* (^|[\s\( ])(leadAbbrs)\.(\s*)  ->  $1$2. nbsp
leadMatch(s, i) ==
  LET c == SelectSeq(BodyStarts(s, i),
                     LAMBDA j : WordsAt(s, j, leadAbbrs, {"."}) # {})
  IN  IF c = <<>> THEN NoMatch
      ELSE LET j == c[1]
               w == CHOOSE x \in WordsAt(s, j, leadAbbrs, {"."}) : TRUE
           IN  [e |-> RunEnd(s, j + Len(w) + 1, WS),
                r |-> SubSeq(s, i, j - 1) \o w \o <<".", "nb">>]

\* /,(\s+)(?=\d)/  ->  , nbsp
CommaMatch(s, i) ==
  LET e == RunEnd(s, i + 1, WS)
  IN  IF s[i] = "," /\ e >= i + 1 /\ e + 1 <= Len(s) /\ s[e + 1] \in Digits
      THEN [e |-> e, r |-> <<",", "nb">>]
      ELSE NoMatch

\* (\d)(\s*)(trailAbbrs)\.  ->  $1 nbsp $3.
trailMatch(s, i) ==
  LET j == RunEnd(s, i + 1, WS) + 1
      W == WordsAt(s, j, trailAbbrs, {"."})
  IN  IF s[i] \in Digits /\ W # {}
      THEN LET w == CHOOSE x \in W : TRUE
           IN  [e |-> j + Len(w), r |-> <<s[i], "nb">> \o w \o <<".">>]
      ELSE NoMatch

\* /№(\s*)(\d)/  ->  № nbsp $2
NumeroMatch(s, i) ==
  LET e == RunEnd(s, i + 1, WS)
  IN  IF s[i] = "No" /\ e + 1 <= Len(s) /\ s[e + 1] \in Digits
      THEN [e |-> e + 1, r |-> <<"No", "nb", s[e + 1]>>]
      ELSE NoMatch

\* /(\S)\s+\((?=.{1,12}\))/  ->  $1 nbsp (
ShortParenMatch(s, i) ==
  LET e == RunEnd(s, i + 1, WS)
      p == e + 1
  IN  IF /\ s[i] \notin WS
         /\ e >= i + 1
         /\ p <= Len(s) /\ s[p] = "("
         /\ \E n \in 1..12 :
              /\ p + n + 1 <= Len(s)
              /\ \A k \in 1..n : s[p + k] # "nl"
              /\ s[p + n + 1] = ")"
      THEN [e |-> p, r |-> <<s[i], "nb", "(">>]
      ELSE NoMatch

\* content.replace(/-/g, '‑')
protectedContent(content) ==
  [k \in 1..Len(content) |-> IF content[k] = "-" THEN "nh" ELSE content[k]]

\* /\(([^)]+)\)/  ->  ( wj protectedContent wj )
ParenMatch(s, i) ==
  LET e == RunEnd(s, i + 1, {c \in {s[k] : k \in 1..Len(s)} : c # ")"})
  IN  IF s[i] = "(" /\ e >= i + 1 /\ e + 1 <= Len(s)
      THEN [e |-> e + 1,
            r |-> <<"(", "wj">> \o protectedContent(SubSeq(s, i + 1, e))
                  \o <<"wj", ")">>]
      ELSE NoMatch

\* /\(\s+/  ->  (
OpenSpaceMatch(s, i) ==
  LET e == RunEnd(s, i + 1, WS)
  IN  IF s[i] = "(" /\ e >= i + 1 THEN [e |-> e, r |-> <<"(">>] ELSE NoMatch

\* /\s+\)/  ->  )
CloseSpaceMatch(s, i) ==
  LET e == RunEnd(s, i, WS)
  IN  IF e >= i /\ e + 1 <= Len(s) /\ s[e + 1] = ")"
      THEN [e |-> e + 1, r |-> <<")">>]
      ELSE NoMatch

\* /(\d{2,4})-(\d{2,4})/  ->  $1 en-dash $2
RangeMatch(s, i) ==
  LET a == RunEnd(s, i, Digits)
      b == RunEnd(s, a + 2, Digits)
      n == a - i + 1
      m == IF b - (a + 1) > 4 THEN 4 ELSE b - (a + 1)
  IN  IF /\ n >= 2 /\ n <= 4
         /\ a + 1 <= Len(s) /\ s[a + 1] = "-"
         /\ m >= 2
      THEN [e |-> a + 1 + m,
            r |-> SubSeq(s, i, a) \o <<"nd">> \o SubSeq(s, a + 2, a + 1 + m)]
      ELSE NoMatch

\* /(\s+)-(\s+)/  ->  nbsp em-dash space
LongDashMatch(s, i) ==
  LET a == RunEnd(s, i, WS)
      b == RunEnd(s, a + 2, WS)
  IN  IF a >= i /\ a + 1 <= Len(s) /\ s[a + 1] = "-" /\ b >= a + 2
      THEN [e |-> b, r |-> <<"nb", "md", " ">>]
      ELSE NoMatch

\* numStr.length === 4 && (numStr.startsWith('19') || numStr.startsWith('20'))
isYear(numStr) ==
  Len(numStr) = 4 /\ (HasAt(numStr, 1, <<"1", "9">>) \/ HasAt(numStr, 1, <<"2", "0">>))

\* the loop that inserts a no-break space before every group of three
RECURSIVE GroupFrom(_, _)
GroupFrom(match, i) ==
  IF i >= Len(match) THEN <<>>
  ELSE (IF i > 0 /\ (Len(match) - i) % 3 = 0 THEN <<"nb">> ELSE <<>>)
       \o <<match[i + 1]>> \o GroupFrom(match, i + 1)

\* /\b\d{4,}\b/  ->  the run itself when it is a year, else grouped
ThousandsMatch(s, i) ==
  LET e == RunEnd(s, i, Digits)
  IN  IF e - i + 1 >= 4 /\ WordBoundary(s, i) /\ WordBoundary(s, e + 1)
      THEN LET match == SubSeq(s, i, e)
           IN  [e |-> e, r |-> IF isYear(match) THEN match ELSE GroupFrom(match, 0)]
      ELSE NoMatch

RuleMatch(rule, s, i) ==
  CASE rule = "m2"         -> UnitMatch(s, i, "2", "sup2")
    [] rule = "m3"         -> UnitMatch(s, i, "3", "sup3")
    [] rule = "openQuote"  -> OpenQuoteMatch(s, i)
    [] rule = "closeQuote" -> CloseQuoteMatch(s, i)
    [] rule = "prep"       -> prepMatch(s, i)
    [] rule = "lead"       -> leadMatch(s, i)
    [] rule = "comma"      -> CommaMatch(s, i)
    [] rule = "trail"      -> trailMatch(s, i)
    [] rule = "numero"     -> NumeroMatch(s, i)
    [] rule = "shortParen" -> ShortParenMatch(s, i)
    [] rule = "paren"      -> ParenMatch(s, i)
    [] rule = "openSpace"  -> OpenSpaceMatch(s, i)
    [] rule = "closeSpace" -> CloseSpaceMatch(s, i)
    [] rule = "range"      -> RangeMatch(s, i)
    [] rule = "longDash"   -> LongDashMatch(s, i)
    [] rule = "thousands"  -> ThousandsMatch(s, i)

\* String.prototype.replace with a global regular expression: scan from
\* the left, replace each match and resume after it
RECURSIVE ReplaceFrom(_, _, _)
ReplaceFrom(rule, s, i) ==
  IF i > Len(s) THEN <<>>
  ELSE LET m == RuleMatch(rule, s, i)
       IN  IF m.e >= i
           THEN m.r \o ReplaceFrom(rule, s, m.e + 1)
           ELSE <<s[i]>> \o ReplaceFrom(rule, s, i + 1)

replace(s, rule) == ReplaceFrom(rule, s, 1)

\* the rules in the order formatRussianText applies them
Rules ==
  << "m2", "m3", "openQuote", "closeQuote", "prep", "prep", "prep", "lead",
     "comma", "trail", "numero", "shortParen", "paren", "openSpace",
     "closeSpace", "range", "longDash", "thousands" >>

RECURSIVE ApplyRules(_, _)
ApplyRules(f, k) ==
  IF k > Len(Rules) THEN f ELSE ApplyRules(replace(f, Rules[k]), k + 1)

formatRussianText(text) ==
  IF text = <<>> THEN text
  ELSE IF trim(text) = <<"-">> THEN <<"nd">>
  ELSE ApplyRules(text, 1)

(***************************************************************************)
(* The document (src/types.ts, src/constants.ts).                         *)
(***************************************************************************)
A3_WIDTH_MM == 42000
A3_HEIGHT_MM == 29700
MARGIN_MM == 1500

\* UI_UNITS
headerFontSize == 260
standardFontSize == 310
numericFontSize == 380
cellPadding == 80
\* the line-height factor 1.0, in percent
lineHeight == 100

\* h1 + h2 of drawHeader
totalH == 1400

\* the minimum row height of calculateRowHeight
minRowH == 600

\* the space kept free above the bottom margin
footerReserve == 500

\* the number of columns drawHeader indexes (0..7, 8 and 9, 10..12)
SchemaColumns == 13

\* the number of URLs in each list of FONT_SOURCES
NumSources == 2

Variants == {"regular", "bold"}

AUTO == <<"LA", "LU", "LT", "LO">>

\* an unset optional field of TableCellStyle is 0 (falsy, as undefined is)
NoStyle == [fontSize |-> 0, fontWeight |-> 0, circleSize |-> 0]

\* the widths of INITIAL_COLUMNS are written in tenths of a percent
INITIAL_UNIT == 10

\* column widths in tenths of a percent, titles abridged
INITIAL_COLUMNS ==
  << [title |-> <<"No", "nl", "P">>, width |-> 25],
     [title |-> <<"M", "O">>,        width |-> 90],
     [title |-> <<"N", "P">>,        width |-> 100],
     [title |-> <<"P", "nl", "K">>,  width |-> 65],
     [title |-> <<"N", "M">>,        width |-> 253],
     [title |-> <<"T", "M">>,        width |-> 76],
     [title |-> <<"V", "O">>,        width |-> 56],
     [title |-> <<"P", ",", "nl", "K", "M">>, width |-> 60],
     [title |-> <<"(", "K", "-", "V", ")">>,  width |-> 40],
     [title |-> <<"E", "D", ".">>,   width |-> 40],
     [title |-> <<"P", "nl", "R">>,  width |-> 60],
     [title |-> <<"O", "S", ",", "nl", "T", "Y", "S", ".">>, width |-> 80],
     [title |-> <<"O", "N", ",", "nl", "T", "Y", "S", ".">>, width |-> 55] >>

\* createCells: one cell per value, no font style set
createCells(values) ==
  [i \in 1..Len(values) |-> [value |-> values[i], style |-> NoStyle]]

\* the cell at 0-based column c of a row given a style
WithStyle(cells, c, st) == [cells EXCEPT ![c + 1].style = st]

RECURSIVE Lines(_)
\* n text lines separated by line feeds
Lines(n) == IF n <= 1 THEN <<"X">> ELSE <<"X", "nl">> \o Lines(n - 1)

\* the rows a document is made of: the total row and a body row of
\* INITIAL_DATA (values abridged), a body row with a five-line name and a
\* last cell in the largest font size the property panel allows, and a
\* body row taller than a page
TotalRow ==
  [isTotal |-> TRUE,
   cells |-> createCells(<< <<>>, <<"V", "S", "E", "G", "O">>, <<>>, <<>>,
       <<>>, <<>>, <<>>, <<>>, <<>>, <<>>, <<>>,
       <<"1", "5", "3", " ", "1", "8", "2", ",", "6">>, <<"-">> >>)]

BodyRow ==
  [isTotal |-> FALSE,
   cells |-> createCells(<< AUTO, <<>>, <<"P", "G", "T", ".", " ", "S">>,
       <<>>, <<"K", " ", "No", "1", ".">>, <<>>, <<>>, <<>>, <<>>, <<>>,
       <<"2", "0", "2", "4", "-", "2", "0", "2", "5">>, <<>>, <<"1", ".", "2">> >>)]

TallRow ==
  [isTotal |-> FALSE,
   cells |-> WithStyle(WithStyle(createCells(<< AUTO, <<>>, <<>>, <<>>,
       Lines(5), <<>>, <<>>, <<>>, <<>>, <<>>, <<>>, <<>>, <<"1">> >>), 4,
       [NoStyle EXCEPT !.fontSize = 2000]), 12,
       [NoStyle EXCEPT !.fontSize = 2000])]

HugeRow ==
  [isTotal |-> FALSE,
   cells |-> WithStyle(createCells(<< AUTO, <<>>, <<>>, <<>>, Lines(13), <<>>,
       <<>>, <<>>, <<>>, <<>>, <<>>, <<>>, <<>> >>), 4,
       [NoStyle EXCEPT !.fontSize = 2000])]

RowKinds == {TotalRow, BodyRow, TallRow, HugeRow}

\* the longest document explored
MaxRows == 3

\* the number of exports of one document explored
MaxRenders == 2


SeqsUpTo(S, n) == UNION {[1..k -> S] : k \in 0..n}

Abs(x) == IF x < 0 THEN -x ELSE x

RECURSIVE GCD(_, _)
GCD(a, b) == IF b = 0 THEN a ELSE GCD(b, a % b)

RECURSIVE GcdWidths(_, _)
\* the greatest common divisor of g and the widths of cols
GcdWidths(cols, g) ==
  IF cols = <<>> THEN g
  ELSE GcdWidths(Tail(cols), GCD(g, Abs(cols[1].width)))

\* the widths w / den of cols, in lowest terms
Reduced(cols, den) ==
  LET g == GcdWidths(cols, den)
  IN  [columns |-> [i \in 1..Len(cols) |-> [cols[i] EXCEPT !.width = @ \div g]],
       wden |-> den \div g]

\* newColumns.forEach(c => c.width *= scale) with scale = 100 / (sum / unit):
\* exact, every width becomes 100 * width / sum
Rescaled(cols, sum) ==
  LET g == GCD(100, sum)
  IN  Reduced([i \in 1..Len(cols) |-> [cols[i] EXCEPT !.width = (100 \div g) * @]],
              sum \div g)

\* q.splice(at, 1), at 0-based
Without(q, at) == SubSeq(q, 1, at) \o SubSeq(q, at + 2, Len(q))

\* q.splice(at, 0, x), at 0-based
WithAt(q, at, x) == SubSeq(q, 1, at) \o <<x>> \o SubSeq(q, at + 1, Len(q))

\* the document handleDeleteColumn(colIdx) sets, and its width unit
DeleteColumn(d, den, colIdx) ==
  LET deletedWidth == d.columns[colIdx + 1].width
      scaled == Rescaled(Without(d.columns, colIdx), 100 * den - deletedWidth)
  IN  [data |-> [columns |-> scaled.columns,
                 rows |-> [r \in 1..Len(d.rows) |->
                    [d.rows[r] EXCEPT !.cells = Without(@, colIdx)]]],
       wden |-> scaled.wden]

\* the documents an export is started on: the canonical 13 columns, or
\* the same after the last column was deleted in the editor
Documents ==
  LET full == {[columns |-> INITIAL_COLUMNS, rows |-> rs] :
                 rs \in SeqsUpTo(RowKinds, MaxRows)}
  IN  {[data |-> d, wden |-> INITIAL_UNIT] : d \in full}
        \cup {DeleteColumn(d, INITIAL_UNIT, SchemaColumns - 1) : d \in full}

\* the documents exported over a network on which any fetch may fail or
\* come back undersized (the documents of Documents are exported over one
\* on which every fetch succeeds)
FontDocuments ==
  LET d == [columns |-> INITIAL_COLUMNS, rows |-> <<TotalRow, BodyRow>>]
  IN  {[data |-> d, wden |-> INITIAL_UNIT],
       DeleteColumn(d, INITIAL_UNIT, SchemaColumns - 1)}

(***************************************************************************)
(* State.                                                                  *)
(***************************************************************************)
VARIABLES
  data,       \* the TableData handed to exportToPDF
  pc,         \* where exportToPDF is: idle, fonts, header, rows, done, failed
  req,        \* per font variant, the fetches issued so far and their outcome
  result,     \* per font variant, how its fetchWithFallback settled
  pages,      \* the number of pages of the jsPDF document
  font,       \* the font size and weight the jsPDF document is left in
  currentY,   \* let currentY
  ri,         \* the row data.rows.forEach is at (1-based)
  bIdx,       \* let bIdx
  events,     \* what was drawn, in order: headers, page breaks, rows
  measured,   \* the calls of calculateRowHeight and what they returned
  saved,      \* the number of doc.save calls of this export
  alerts,     \* the number of alert calls of this export
  renderNo,   \* the number of exports started on this document
  faults,     \* how many more fetches may fail or come back undersized
  prevEvents, \* the drawing of the previous completed export
  text,       \* the argument of formatRussianText
  once,       \* formatRussianText(text)
  twice,      \* formatRussianText(formatRussianText(text))
  fpc,        \* how many times the text was normalised
  wden,       \* the unit of the column widths: a width w is w / wden percent
  drawn,      \* per row drawn: its fill, its height and what was drawn in its cells
  app,        \* the rows of App's state once setData replaced the rows array
              \* that the argument of a running exportToPDF still holds
  atCall,     \* the document as it was when exportToPDF was called
  headerCells \* the rectangles drawHeader drew last

vars == << data, pc, req, result, pages, font, currentY, ri, bIdx, events,
           measured, saved, alerts, renderNo, faults, prevEvents, text, once, twice,
           fpc, wden, drawn, app, atCall, headerCells >>

exportVars == << data, wden, pc, req, result, pages, font, currentY, ri, bIdx,
                 events, measured, saved, alerts, renderNo, faults,
                 prevEvents, drawn, app, atCall, headerCells >>

fmtVars == << text, once, twice, fpc >>

\* what the editor handlers leave alone
editFrame == << pc, req, result, pages, font, currentY, ri, bIdx, events,
               measured, saved, alerts, renderNo, faults, prevEvents, drawn,
               atCall, headerCells, fmtVars >>

(***************************************************************************)
(* Text measurement (jsPDF) and row measurement.                           *)
(***************************************************************************)
\* the advance width of one character, in hundredths of the font size
CharEm(bold) == IF bold THEN 55 ELSE 50

CeilDiv(a, b) == (a + b - 1) \div b

\* the pieces of s between line feeds
RECURSIVE Paragraphs(_)
Paragraphs(s) ==
  IF \A k \in 1..Len(s) : s[k] # "nl" THEN <<s>>
  ELSE LET k == CHOOSE j \in 1..Len(s) :
                  s[j] = "nl" /\ \A m \in 1..(j - 1) : s[m] # "nl"
       IN  <<SubSeq(s, 1, k - 1)>> \o Paragraphs(SubSeq(s, k + 1, Len(s)))

RECURSIVE SumSeq(_)
SumSeq(q) == IF q = <<>> THEN 0 ELSE q[1] + SumSeq(Tail(q))

\* doc.splitTextToSize(t, maxlen).length: the text is broken at line
\* feeds and each piece is wrapped to maxlen in the font and size the
\* document is currently set to (f), not in the font of the cell
splitTextToSize(t, maxlen, f) ==
  LET ps == Paragraphs(t)
      n(par) == LET w == Len(par) * CharEm(f.bold) * f.size
                IN  IF w = 0 \/ maxlen <= 0 THEN 1 ELSE CeilDiv(w, 100 * maxlen)
  IN  SumSeq([k \in 1..Len(ps) |-> n(ps[k])])

\* Number.prototype.toString for 0..99
toString(n) ==
  LET d(k) == <<"0", "1", "2", "3", "4", "5", "6", "7", "8", "9">>[k + 1]
  IN  IF n < 10 THEN <<d(n)>> ELSE <<d(n \div 10), d(n % 10)>>

\* data.columns.map(col => (col.width / 100) * contentWidth)
contentWidth == A3_WIDTH_MM - (MARGIN_MM * 2)

colWidthsMm(d) ==
  [i \in 1..Len(d.columns) |->
     (d.columns[i].width * contentWidth) \div (100 * wden)]

\* cell.style?.fontSize || (isNumeric ? numericFontSize : standardFontSize),
\* i the 0-based column
CellFontSize(cell, i) ==
  IF cell.style.fontSize # 0 THEN cell.style.fontSize
  ELSE IF i >= 7 THEN numericFontSize ELSE standardFontSize

\* (i === 0 && cell.value === 'AUTO') ? (bodyIdx + 1).toString() : cell.value
CellText(cell, i, bodyIdx) ==
  IF i = 0 /\ cell.value = AUTO THEN toString(bodyIdx + 1) ELSE cell.value

\* what one cell requires of the row height in calculateRowHeight
CellHeights(d, row, i, bodyIdx, f) ==
  LET cell == row.cells[i + 1]
      fs == CellFontSize(cell, i)
      circleSizeMm == IF cell.style.circleSize # 0 THEN cell.style.circleSize
                      ELSE (fs * 16) \div 10
      requiredCircleH == circleSizeMm + (cellPadding * 25) \div 10
      formatted == formatRussianText(CellText(cell, i, bodyIdx))
      lines == splitTextToSize(formatted, colWidthsMm(d)[i + 1] - cellPadding * 2, f)
      textH == (lines * fs * lineHeight) \div 100 + cellPadding * 3
  IN  (IF i = 0 /\ ~row.isTotal THEN {requiredCircleH} ELSE {}) \cup {textH}

\* (only the leading cell is measured)
LeadingCellHeight(d, row, bodyIdx, f) ==
  Max({minRowH} \cup CellHeights(d, row, 0, bodyIdx, f))

\* calculateRowHeight(row, bIdx), with the font f the document is in
calculateRowHeight(d, row, bodyIdx, f) ==
  Max({minRowH} \cup
      UNION {CellHeights(d, row, i, bodyIdx, f) : i \in 0..(Len(row.cells) - 1)})

\* the font the cells of a row leave the document in: renderCellText sets
\* it for every cell, so the last cell decides
FontAfterRow(row, isTotal, f) ==
  IF row.cells = <<>> THEN f
  ELSE LET i == Len(row.cells) - 1
           cell == row.cells[i + 1]
           isBold == isTotal \/ i >= 7 \/ cell.style.fontWeight = 700
       IN  [size |-> CellFontSize(cell, i),
            bold |-> IF i = 0 /\ ~isTotal THEN TRUE ELSE isBold]

\* the font renderCellText leaves after the last header cell
HeaderFont == [size |-> headerFontSize, bold |-> TRUE]

\* new jsPDF(...) followed by doc.setFont(fontName, 'normal'): 16 pt
NewDocFont == [size |-> 564, bold |-> FALSE]

\* (the test of the earlier revision: only the position is looked at)
NeedsBreakLate(y, rowHeight) == y > A3_HEIGHT_MM - MARGIN_MM - footerReserve

\* currentY + rowHeight > A3_HEIGHT_MM - margin - 5
NeedsBreak(y, rowHeight) == y + rowHeight > A3_HEIGHT_MM - MARGIN_MM - footerReserve

(***************************************************************************)
(* exportToPDF: font loading.                                              *)
(***************************************************************************)
\* how one fetch can end: it throws, it answers with a non-success
\* status, it answers 200 with fewer than 5000 bytes, it answers 200 with
\* a font file
Outcomes == {"throw", "status", "small", "ok"}

\* a fetch that makes fetchWithFallback go on to the next URL: fetch
\* threw, or !response.ok
SourceFailed(o) == o \in {"throw", "status"}

Pending == [st |-> "pending", url |-> 0, bytes |-> "none"]

\* (a loop that asks for the same URL again)
NextUrlAgain(k) == k

\* the next URL of the for loop
NextUrl(k) == k + 1

\* (a race: go on as soon as one variant is there)
AnyResolved(res) == \E v \in Variants : res[v].st = "resolved"

\* Promise.all resolves
AllResolved(res) == \A v \in Variants : res[v].st = "resolved"

\* (currentY kept from the previous export)
StaleY == currentY

\* let currentY = margin
StartY == MARGIN_MM

\* (a catch block around every fetchWithFallback)
CatchingEach == TRUE

\* the try block of exportToPDF is still awaiting Promise.all
Catching == pc = "fonts"

Ev(t, page, row, y, h, from) ==
  [t |-> t, page |-> page, row |-> row, y |-> y, h |-> h, from |-> from]

\* App's state and the argument of exportToPDF hold the same rows array
NoApp == [on |-> FALSE, rows |-> <<>>, link |-> <<>>]

\* exportToPDF has not been called
NoCall == [data |-> [columns |-> <<>>, rows |-> <<>>], wden |-> 1]

\* the rows of App's state
AppRows == IF app.on THEN app.rows ELSE data.rows

\* onClick={() => exportToPDF(data)}: exportToPDF is called with App's
\* state; both fetchWithFallback calls start
\* and each issues the fetch of its first URL
ExportStart ==
  /\ pc \in {"idle", "done", "failed"}
  /\ renderNo < MaxRenders
  /\ \A v \in Variants : result[v].st # "pending"
  /\ pc' = "fonts"
  /\ renderNo' = renderNo + 1
  /\ prevEvents' = IF pc = "done" THEN events ELSE prevEvents
  /\ req' = [v \in Variants |-> <<[url |-> 1, outcome |-> "pending"]>>]
  /\ result' = [v \in Variants |-> Pending]
  /\ pages' = 0
  /\ events' = <<>>
  /\ drawn' = <<>>
  /\ measured' = {}
  /\ saved' = 0
  /\ alerts' = 0
  /\ data' = [data EXCEPT !.rows = AppRows]
  /\ app' = NoApp
  /\ atCall' = [data |-> data', wden |-> wden]
  /\ headerCells' = <<>>
  /\ UNCHANGED << wden, font, currentY, ri, bIdx, faults, fmtVars >>

\* (a failed source is always followed by another request)
RetryForever(k) == TRUE

\* for (const url of urls): the loop goes on while a listed URL is left
HasNextSource(k) == k < NumSources

\* the catch block of exportToPDF
CatchError ==
  /\ pc' = "failed"
  /\ alerts' = alerts + 1

\* the pending fetch of variant v settles with outcome o and
\* fetchWithFallback runs on to its next await; when that settles
\* Promise.all, exportToPDF runs on: into the catch block, or to the
\* creation of the document
Respond(v, o) ==
  LET k == Len(req[v])
      settled == [req[v] EXCEPT ![k].outcome = o]
  IN
  /\ result[v].st = "pending"
  /\ req[v][k].outcome = "pending"
  /\ o # "ok" => faults > 0
  /\ faults' = IF o # "ok" THEN faults - 1 ELSE faults
  /\ IF SourceFailed(o)
     THEN /\ IF HasNextSource(k)
             THEN /\ req' = [req EXCEPT ![v] =
                      Append(settled, [url |-> NextUrl(k), outcome |-> "pending"])]
                  /\ UNCHANGED << result, pc, alerts >>
             ELSE /\ req' = [req EXCEPT ![v] = settled]
                  /\ result' = [result EXCEPT ![v].st = "rejected"]
                  /\ IF Catching THEN CatchError
                                     ELSE UNCHANGED << pc, alerts >>
          /\ UNCHANGED << pages, font, currentY, ri, bIdx >>
     ELSE /\ req' = [req EXCEPT ![v] = settled]
          /\ result' = [result EXCEPT ![v] =
                          [st |-> "resolved", url |-> req[v][k].url, bytes |-> o]]
          /\ IF pc = "fonts" /\ AllResolved(result')
             THEN /\ pc' = "header"
                  /\ pages' = 1
                  /\ font' = NewDocFont
                  /\ currentY' = StartY
                  /\ ri' = 1
                  /\ bIdx' = 0
             ELSE UNCHANGED << pc, pages, font, currentY, ri, bIdx >>
          /\ UNCHANGED alerts
  /\ UNCHANGED << data, wden, events, drawn, measured, saved, renderNo, prevEvents,
                  app, atCall, headerCells, fmtVars >>

(***************************************************************************)
(* exportToPDF: layout.                                                    *)
(***************************************************************************)
\* drawHeader reads data.columns[0..12]: a missing column makes it throw
HeaderThrows(d) == Len(d.columns) < SchemaColumns

\* (currentY left where it was)
NoReset == currentY

\* currentY = margin at a page break
TopAfterBreak == MARGIN_MM

\* (a page break that forgets the header)
BreakWithoutHeader(page) == << Ev("B", page, 0, 0, 0, 0) >>

\* what drawRow does at a page break: doc.addPage(), drawHeader()
BreakEvents(page) ==
  << Ev("B", page, 0, 0, 0, 0), Ev("H", page, 0, TopAfterBreak, totalH, 0) >>

\* (the group cell as wide as column 8 alone)
groupedNarrow(w) == w[9]

\* const groupedW = colWidthsMm[8] + colWidthsMm[9]
groupedW(w) == w[9] + w[10]

\* the rectangles doc.rect(..., 'D') of drawHeader draws, in the order
\* drawn: x from the left margin and w in units of 1 / (100 * wden) of a
\* hundredth of a millimetre (so that (col.width / 100) * contentWidth is
\* exact), y from currentY and h in hundredths of a millimetre
HeaderCells(d) ==
  LET w == [i \in 1..Len(d.columns) |-> d.columns[i].width * contentWidth]
      curX(i) == SumSeq(SubSeq(w, 1, i))
      h1 == 800
      h2 == 600
      afterGroup == curX(8) + groupedW(w)
      single(i) == [x |-> curX(i), y |-> 0, w |-> w[i + 1], h |-> totalH]
      last(i) == [x |-> afterGroup + SumSeq(SubSeq(w, 11, i)), y |-> 0,
                  w |-> w[i + 1], h |-> totalH]
  IN  [i \in 1..8 |-> single(i - 1)]
        \o << [x |-> curX(8), y |-> 0, w |-> groupedW(w), h |-> h1],
              [x |-> curX(8), y |-> h1, w |-> w[9], h |-> h2],
              [x |-> curX(8) + w[9], y |-> h1, w |-> w[10], h |-> h2] >>
        \o [i \in 1..3 |-> last(i + 9)]

\* drawHeader() of the first page
DrawFirstHeader ==
  /\ pc = "header"
  /\ IF HeaderThrows(data)
     THEN /\ CatchError
          /\ UNCHANGED << events, currentY, font, headerCells >>
     ELSE /\ events' = Append(events, Ev("H", pages, 0, currentY, totalH, 0))
          /\ headerCells' = HeaderCells(data)
          /\ currentY' = currentY + totalH
          /\ font' = HeaderFont
          /\ pc' = "rows"
          /\ UNCHANGED alerts
  /\ UNCHANGED << data, wden, req, result, pages, ri, bIdx, measured, saved,
                  renderNo, faults, prevEvents, drawn, app, atCall, fmtVars >>

\* (the resolved font size is stored in the style of every cell of row r)
StyleDefaulted(d, r) ==
  LET cells == d.rows[r].cells
  IN  [d EXCEPT !.rows[r].cells = [i \in 1..Len(cells) |->
        [cells[i] EXCEPT !.style.fontSize = CellFontSize(cells[i], i - 1)]]]

\* the document after drawRow drew row r: the row, its cells, their values
\* and styles are read and nothing is assigned to them
AfterDrawRow(d, r) == d

\* (every row takes a number)
CountEveryRow(row, b) == b + 1

\* row.isTotal ? -1 : bIdx++ : what bIdx is after the row
NextBodyIdx(row, b) == IF row.isTotal THEN b ELSE b + 1

\* (a total row is filled as a body row of its index is)
FillByParity(isTotal, bodyIdx) == IF bodyIdx % 2 # 0 THEN "odd" ELSE "none"

\* the fill of a row: totalBg for a total row, rowOddBg for a body row of
\* odd bodyIdx, none otherwise
RowFill(isTotal, bodyIdx) ==
  IF isTotal THEN "total" ELSE IF bodyIdx % 2 # 0 THEN "odd" ELSE "none"

\* the weight drawRow hands to renderCellText for the cell of 0-based
\* column i: true for the leading cell of a body row, isBold otherwise
CellBold(row, i) ==
  LET cell == row.cells[i + 1]
      isBold == row.isTotal \/ i >= 7 \/ cell.style.fontWeight = 700
  IN  IF i = 0 /\ ~row.isTotal THEN TRUE ELSE isBold

\* cell.style?.circleSize || (fs * 1.6)
CircleSize(cell, i) ==
  IF cell.style.circleSize # 0 THEN cell.style.circleSize
  ELSE (CellFontSize(cell, i) * 16) \div 10

\* lines.length of calculateRowHeight for the cell of column i: the text
\* is wrapped to the column less the cell padding, in the font f the
\* document is in
CountedLines(d, row, i, bodyIdx, f) ==
  splitTextToSize(formatRussianText(CellText(row.cells[i + 1], i, bodyIdx)),
                  colWidthsMm(d)[i + 1] - cellPadding * 2, f)

\* lines.length of renderCellText for the cell of column i: the font and
\* size of the cell are set first, and the text is wrapped to the column
\* less the padding of its alignment (cellPadding left, 0.2 mm centred)
DrawnLines(d, row, i, bodyIdx, f) ==
  LET cell == row.cells[i + 1]
      padding == IF i = 4 THEN cellPadding ELSE 20
  IN  splitTextToSize(formatRussianText(CellText(cell, i, bodyIdx)),
                      colWidthsMm(d)[i + 1] - padding * 2,
                      [size |-> CellFontSize(cell, i), bold |-> CellBold(row, i)])

\* what drawRow paints of a row besides its frame: the fill of the row,
\* the height it was given and, per cell, the style of the cell, the font
\* size and weight it is drawn in, the diameter of its circle (0: none),
\* the lines calculateRowHeight counted and the lines renderCellText draws;
\* lead is the text drawn in the leading cell
DrawnRow(d, row, rowNo, page, bodyIdx, f, rowHeight) ==
  [row |-> rowNo,
   page |-> page,
   isTotal |-> row.isTotal,
   h |-> rowHeight,
   fill |-> RowFill(row.isTotal, bodyIdx),
   circle |-> row.cells # <<>> /\ ~row.isTotal,
   lead |-> IF row.cells = <<>> THEN <<>>
            ELSE formatRussianText(CellText(row.cells[1], 0, bodyIdx)),
   cells |-> [c \in 1..Len(row.cells) |->
      [style |-> row.cells[c].style,
       fs |-> CellFontSize(row.cells[c], c - 1),
       bold |-> CellBold(row, c - 1),
       circleSize |-> IF c = 1 /\ ~row.isTotal
                      THEN CircleSize(row.cells[c], 0) ELSE 0,
       counted |-> CountedLines(d, row, c - 1, bodyIdx, f),
       lines |-> DrawnLines(d, row, c - 1, bodyIdx, f)]]]

\* one turn of data.rows.forEach: drawRow(row, !!row.isTotal,
\* row.isTotal ? -1 : bIdx++)
DrawRow ==
  /\ pc = "rows"
  /\ ri <= Len(data.rows)
  /\ LET row == data.rows[ri]
         bodyIdx == IF row.isTotal THEN -1 ELSE bIdx
         rowHeight == calculateRowHeight(data, row, bodyIdx, font)
         brk == NeedsBreak(currentY, rowHeight)
         page == IF brk THEN pages + 1 ELSE pages
         y == IF brk THEN TopAfterBreak + totalH ELSE currentY
     IN  /\ measured' = measured \cup
                          {[row |-> row, bIdx |-> bodyIdx, h |-> rowHeight]}
         /\ pages' = page
         /\ events' = events \o (IF brk THEN BreakEvents(page) ELSE <<>>)
                        \o << Ev("R", page, ri, y, rowHeight, currentY) >>
         /\ currentY' = y + rowHeight
         /\ font' = FontAfterRow(row, row.isTotal, IF brk THEN HeaderFont ELSE font)
         /\ drawn' = Append(drawn, DrawnRow(data, row, ri, page, bodyIdx, font, rowHeight))
         /\ headerCells' = IF brk THEN HeaderCells(data) ELSE headerCells
         /\ bIdx' = NextBodyIdx(row, bIdx)
  /\ ri' = ri + 1
  /\ data' = AfterDrawRow(data, ri)
  /\ UNCHANGED << wden, pc, req, result, saved, alerts, renderNo, faults,
                  prevEvents, app, atCall, fmtVars >>

\* doc.save(...)
Save ==
  /\ pc = "rows"
  /\ ri > Len(data.rows)
  /\ saved' = saved + 1
  /\ events' = Append(events, Ev("D", pages, 0, currentY, 0, 0))
  /\ pc' = "done"
  /\ UNCHANGED << data, wden, req, result, pages, font, currentY, ri, bIdx,
                  measured, alerts, renderNo, faults, prevEvents, drawn, app,
                  atCall, headerCells, fmtVars >>

\* no export has been started
ExportIdle ==
  /\ pc = "idle"
  /\ req = [v \in Variants |-> <<>>]
  /\ result = [v \in Variants |-> [st |-> "idle", url |-> 0, bytes |-> "none"]]
  /\ pages = 0
  /\ font = NewDocFont
  /\ currentY = 0
  /\ ri = 1
  /\ bIdx = 0
  /\ events = <<>>
  /\ drawn = <<>>
  /\ measured = {}
  /\ saved = 0
  /\ alerts = 0
  /\ renderNo = 0
  /\ prevEvents = <<>>
  /\ app = NoApp
  /\ atCall = NoCall
  /\ headerCells = <<>>

Init ==
  /\ \/ /\ \E d \in Documents : data = d.data /\ wden = d.wden
        /\ faults = 0
     \/ /\ \E d \in FontDocuments : data = d.data /\ wden = d.wden
        /\ faults = MaxRenders * NumSources * Cardinality(Variants)
  /\ ExportIdle
  /\ text = <<>>
  /\ once = <<>>
  /\ twice = <<>>
  /\ fpc = 0

(***************************************************************************)
(* formatRussianText applied to a text, and to its own result.             *)
(***************************************************************************)
\* the longest text normalised
MaxLen == 4

\* the characters of the texts normalised: parentheses, hyphen, space and
\* line feed, a digit, a preposition (ve), an abbreviation (ghe), the dot
FmtAlphabet == {"(", ")", "-", " ", "nl", "1", "V", "G", "."}

Inputs == SeqsUpTo(FmtAlphabet, MaxLen)

InitFmt ==
  /\ text \in Inputs
  /\ once = <<>>
  /\ twice = <<>>
  /\ fpc = 0
  /\ data = [columns |-> INITIAL_COLUMNS, rows |-> <<>>]
  /\ wden = INITIAL_UNIT
  /\ faults = 0
  /\ ExportIdle

\* formatRussianText(text)
Normalize ==
  /\ fpc = 0
  /\ once' = formatRussianText(text)
  /\ fpc' = 1
  /\ UNCHANGED << text, twice, exportVars >>

\* formatRussianText applied to the text it returned
NormalizeAgain ==
  /\ fpc = 1
  /\ twice' = formatRussianText(once)
  /\ fpc' = 2
  /\ UNCHANGED << text, once, exportVars >>

NextFmt == Normalize \/ NormalizeAgain

SpecFmt == InitFmt /\ [][NextFmt]_vars

(***************************************************************************)
(* formatRussianText applied to texts with numbers in them.                *)
(***************************************************************************)
\* the longest run of digits normalised
MaxDigits == 5

\* the runs of digits: the first digits of a plain number and of two
\* numbers that begin as a year does
DigitSeeds ==
  { <<"1", "2", "3", "4", "5", "6", "7">>,
    <<"2", "0", "2", "4", "5", "6", "7">>,
    <<"1", "9", "9", "9", "5", "6", "7">> }

Operands ==
  {SubSeq(d, 1, n) : d \in DigitSeeds, n \in 1..MaxDigits} \cup {<<"ZH">>}

\* what stands before the first operand, between the two, and after the last
Before ==
  {<<>>, <<"(">>, <<"a">>, <<"V", " ">>, <<"No">>, <<"No", " ">>,
   <<"No", " ", " ">>}

Between == {<<"-">>, <<",">>, <<" ", "-", " ">>, <<" ">>}

After == {<<>>, <<")">>, <<"a">>, <<" ", "G", ".">>}

NumberInputs ==
  {p \o a \o q : p \in Before, a \in Operands, q \in After}
    \cup {p \o a \o m \o b \o q :
            p \in Before, a \in Operands, m \in Between, b \in Operands, q \in After}

InitNum ==
  /\ text \in NumberInputs
  /\ once = <<>>
  /\ twice = <<>>
  /\ fpc = 0
  /\ data = [columns |-> INITIAL_COLUMNS, rows |-> <<>>]
  /\ wden = INITIAL_UNIT
  /\ faults = 0
  /\ ExportIdle

SpecNum == InitNum /\ [][NextFmt]_vars

(***************************************************************************)
(* The editor (App.tsx): the handlers that change the document.            *)
(***************************************************************************)
\* the most columns a document is given
MaxColumns == 17

\* the fewest columns of a document a column is deleted from, less one
MinColumns == 16

\* the most rows a document is given
MaxEditRows == 2

\* the finest width unit a rescaling starts from (beyond it the exact
\* widths no longer fit the integers of the model)
MaxUnit == 200000

\* val.toString().replace(/\s/g, '')
Unspaced(val) == SelectSeq(val, LAMBDA c : c \notin WS)

RECURSIVE Squeezed(_, _)
\* text.replace(/\s{2,}/g, ' ') from position i on
Squeezed(s, i) ==
  IF i > Len(s) THEN <<>>
  ELSE LET e == RunEnd(s, i, WS)
       IN  IF e > i THEN <<" ">> \o Squeezed(s, e + 1)
           ELSE <<s[i]>> \o Squeezed(s, i + 1)

cleanText(t) == IF t = <<>> THEN <<>> ELSE trim(Squeezed(t, 1))

DigitValue(c) == CHOOSE n \in 0..9 : toString(n) = <<c>>

RECURSIVE Decimal(_)
\* the decimal digits of a natural number
Decimal(n) == IF n < 10 THEN toString(n) ELSE Decimal(n \div 10) \o toString(n % 10)

RECURSIVE Natural(_, _)
\* the number a string of digits denotes, acc being the value so far
Natural(ds, acc) ==
  IF ds = <<>> THEN acc ELSE Natural(Tail(ds), 10 * acc + DigitValue(ds[1]))

\* formatToFixed1: a number is rewritten with one decimal after a comma
\* (the second decimal rounds the first), anything else is returned as is
formatToFixed1(val) ==
  IF val = <<>> \/ val = <<"nd">> \/ trim(val) = <<>> THEN val
  ELSE LET u == Unspaced(val)
           neg == u # <<>> /\ u[1] = "-"
           body == IF neg THEN Tail(u) ELSE u
           seps == {k \in 1..Len(body) : body[k] \in {",", "."}}
           k == IF seps = {} THEN Len(body) + 1 ELSE Max(seps)
           int == SubSeq(body, 1, k - 1)
           frac == SubSeq(body, k + 1, Len(body))
           commas == {j \in 1..Len(u) : u[j] = ","}
           isNumber ==
             /\ Cardinality(seps) <= 1
             /\ Cardinality(commas) <= 1
             /\ int # <<>> /\ \A j \in 1..Len(int) : int[j] \in Digits
             /\ \A j \in 1..Len(frac) : frac[j] \in Digits
             /\ seps # {} => frac # <<>>
           tenths == 10 * Natural(int, 0)
                       + (IF frac = <<>> THEN 0 ELSE DigitValue(frac[1]))
                       + (IF Len(frac) >= 2 /\ DigitValue(frac[2]) >= 5 THEN 1 ELSE 0)
       IN  IF isNumber
           THEN (IF neg /\ tenths > 0 THEN <<"-">> ELSE <<>>)
                  \o Decimal(tenths \div 10) \o <<",">> \o toString(tenths % 10)
           ELSE val

\* s.includes(w)
Includes(s, w) == \E i \in 1..(Len(s) - Len(w) + 1) : HasAt(s, i, w)

\* the rows of a sheet after the header, sub-header and excluded columns
\* were taken out (filteredRows): a row of thirteen cells followed by a
\* short one holding the word for total (a sheet without such rows
\* changes nothing)
Sheets ==
  {
    << << <<"1">>, <<"S", " ", " ", "O">>, <<>>, <<"D", "A">>, <<>>, <<>>, <<>>,
          <<"4", ".", "2">>, <<"1", "2">>, <<>>, <<>>, <<"1", " ", "0", "0", "0">>,
          <<"0">> >>,
       << <<"2">>, <<"I", "T", "O", "G", "O">>, <<"G", ".", "S">> >> >> }

\* one cell of newTableRows: row the sheet row, cIdx the 0-based column
ImportedCell(row, cIdx, isTotal) ==
  LET raw == IF cIdx + 1 <= Len(row) THEN row[cIdx + 1] ELSE <<>>
      cleaned == cleanText(raw)
      fixed == IF cIdx \in {7, 8, 11, 12} THEN formatToFixed1(cleaned) ELSE cleaned
      dashed == IF cIdx = 12 /\ (trim(fixed) = <<>> \/ trim(fixed) \in
                     {<<"0">>, <<"0", ",", "0">>, <<"0", ".", "0">>,
                      <<"0", ",", "0", "0">>})
                THEN <<"nd">> ELSE fixed
  IN  [value |-> IF cIdx = 0 THEN (IF isTotal THEN <<>> ELSE AUTO) ELSE dashed,
       style |-> NoStyle]

\* newTableRows of handleImportExcel for the columns of d
ImportedRows(d, sheet) ==
  [rIdx \in 1..Len(sheet) |->
     LET row == sheet[rIdx]
         isTotal == \/ rIdx = 1
                    \/ \E c \in 1..Len(row) :
                         \/ Includes(row[c], <<"V", "S", "E", "G", "O">>)
                         \/ Includes(row[c], <<"I", "T", "O", "G", "O">>)
     IN  [isTotal |-> isTotal,
          cells |-> [c \in 1..Len(d.columns) |-> ImportedCell(row, c - 1, isTotal)]]]

\* reader.onload of handleImportExcel: the rows are replaced
handleImportExcel(sheet) ==
  /\ sheet # <<>>
  /\ Len(sheet) <= MaxEditRows
  /\ data' = [data EXCEPT !.rows = ImportedRows(data, sheet)]
  /\ UNCHANGED << wden, app, editFrame >>

\* setData with a new rows array: the argument of a running exportToPDF
\* keeps the array it was called with, in which row j is the row
\* link[j] of the new array (0: not in it)
RowsReplaced(rows, link) ==
  IF pc = "fonts" \/ app.on
  THEN /\ app' = [on |-> TRUE, rows |-> rows, link |-> link]
       /\ UNCHANGED data
  ELSE /\ data' = [data EXCEPT !.rows = rows]
       /\ UNCHANGED app

\* which row of App's state each row of the argument of exportToPDF is
Link == IF app.on THEN app.link ELSE [j \in 1..Len(data.rows) |-> j]

\* the handlers run between the tasks of exportToPDF, never during its
\* synchronous layout; they are explored before it is called and while it
\* awaits the fonts
BetweenTasks == pc \in {"idle", "fonts"}

\* handleAddRow: a new rows array with one more row at the end
handleAddRow ==
  /\ BetweenTasks
  /\ Len(AppRows) < MaxEditRows
  /\ RowsReplaced(Append(AppRows,
       [isTotal |-> FALSE,
        cells |-> [c \in 1..Len(data.columns) |->
                     [value |-> IF c = 1 THEN AUTO ELSE <<>>, style |-> NoStyle]]]),
       Link)
  /\ UNCHANGED << wden, editFrame >>

\* handleDeleteRow(rowIdx): a new rows array without row rowIdx
handleDeleteRow(rowIdx) ==
  /\ BetweenTasks
  /\ rowIdx < Len(AppRows)
  /\ RowsReplaced(Without(AppRows, rowIdx),
       [j \in 1..Len(Link) |->
          IF Link[j] = rowIdx + 1 THEN 0
          ELSE IF Link[j] > rowIdx + 1 THEN Link[j] - 1 ELSE Link[j]])
  /\ UNCHANGED << wden, editFrame >>

\* the title of an added column
NewColumnTitle == <<"N", "S">>

\* handleAddColumn(atIdx): a column of 8 percent is put after column atIdx
\* (at the end for -1) and all widths are scaled to add up to 100
handleAddColumn(atIdx) ==
  LET at == IF atIdx >= 0 THEN atIdx + 1 ELSE Len(data.columns)
      newColumns == WithAt(data.columns, at,
                           [title |-> NewColumnTitle, width |-> 8 * wden])
      sum == SumSeq([i \in 1..Len(newColumns) |-> newColumns[i].width])
      scaled == Rescaled(newColumns, sum)
  IN  /\ Len(data.columns) < MaxColumns
      /\ wden <= MaxUnit
      /\ atIdx < Len(data.columns)
      /\ sum > 0
      /\ data' = [columns |-> scaled.columns,
                  rows |-> [r \in 1..Len(data.rows) |->
                     [data.rows[r] EXCEPT !.cells =
                        WithAt(@, at, [value |-> <<>>, style |-> NoStyle])]]]
      /\ wden' = scaled.wden
      /\ UNCHANGED << app, editFrame >>

handleDeleteColumn(colIdx) ==
  /\ Len(data.columns) > 1
  /\ Len(data.columns) > MinColumns
  /\ colIdx < Len(data.columns)
  /\ 100 * wden - data.columns[colIdx + 1].width > 0
  /\ LET deleted == DeleteColumn(data, wden, colIdx)
     IN  data' = deleted.data /\ wden' = deleted.wden
  /\ UNCHANGED << app, editFrame >>

\* the columns after handleResizeColumn(colIdx, deltaPercent): width moves
\* between the column and its right neighbour, minWidth being 1 percent
ResizedBy(columns, den, colIdx, deltaPercent) ==
  LET nextIdx == colIdx + 1
      minWidth == den
      currentWidth == columns[colIdx + 1].width
      nextWidth == columns[nextIdx + 1].width
      lo == -(currentWidth - minWidth)
      hi == IF deltaPercent * den < nextWidth - minWidth
            THEN deltaPercent * den ELSE nextWidth - minWidth
      actualDelta == IF hi > lo THEN hi ELSE lo
  IN  [columns EXCEPT ![colIdx + 1].width = @ + actualDelta,
                      ![nextIdx + 1].width = @ - actualDelta]

\* handleResizeColumn(colIdx, deltaPercent): the widths of the column
\* objects are assigned
handleResizeColumn(colIdx, deltaPercent) ==
  /\ BetweenTasks
  /\ colIdx + 1 < Len(data.columns)
  /\ data' = [data EXCEPT !.columns = ResizedBy(@, wden, colIdx, deltaPercent)]
  /\ UNCHANGED << wden, app, editFrame >>

\* the columns whose right edge is dragged, and how far (percent): to the
\* left as far as it goes
ResizedColumns == 0..3
Drags == {-100}

\* the rows deleted: the second one
DeletedRows == {1}

\* the editor starts on INITIAL_DATA (rows abridged to the first two)
InitEdit ==
  /\ data = [columns |-> INITIAL_COLUMNS, rows |-> <<TotalRow, BodyRow>>]
  /\ wden = INITIAL_UNIT
  /\ faults = 0
  /\ ExportIdle
  /\ text = <<>>
  /\ once = <<>>
  /\ twice = <<>>
  /\ fpc = 0

NextEdit ==
  \/ handleAddRow
  \/ \E rowIdx \in DeletedRows : handleDeleteRow(rowIdx)
  \/ \E atIdx \in {-1} : handleAddColumn(atIdx)
  \/ handleDeleteColumn(Len(data.columns) - 1)
  \/ \E colIdx \in ResizedColumns, deltaPercent \in Drags :
       handleResizeColumn(colIdx, deltaPercent)
  \/ \E sheet \in Sheets : handleImportExcel(sheet)

SpecEdit == InitEdit /\ [][NextEdit]_vars

(***************************************************************************)
(* An editing session with an export: the handlers that assign to the     *)
(* cells, rows and columns the argument of exportToPDF refers to.         *)
(***************************************************************************)
\* the largest font size a cell is given in the panel (hundredths of a
\* millimetre)
MaxFontSize == 390

\* row and cell objects of App's state were assigned to in place: the
\* rows array of a running exportToPDF refers to the same objects
InPlace(rows) ==
  /\ data' = [data EXCEPT !.rows =
       IF app.on
       THEN [j \in 1..Len(data.rows) |->
               IF app.link[j] # 0 THEN rows[app.link[j]] ELSE data.rows[j]]
       ELSE rows]
  /\ app' = IF app.on THEN [app EXCEPT !.rows = rows] ELSE app

\* the value handleUpdateCell stores for what was typed into column colIdx
TypedValue(colIdx, value) ==
  LET cleaned == cleanText(value)
      fixed == IF colIdx \in {7, 8, 11, 12} THEN formatToFixed1(cleaned) ELSE cleaned
      yesNo == IF colIdx = 3 /\ trim(value) \in {<<"D", "A">>, <<"N", "E", "T">>}
               THEN trim(value) ELSE fixed
  IN  IF colIdx = 12 /\ (trim(yesNo) = <<>> \/ trim(yesNo) \in
             {<<"0">>, <<"0", ",", "0">>, <<"0", ".", "0">>, <<"0", ",", "0", "0">>})
      THEN <<"nd">> ELSE yesNo

\* handleUpdateCell(rowIdx, colIdx, value): the value of the cell object
\* is assigned
handleUpdateCell(rowIdx, colIdx, value) ==
  /\ BetweenTasks
  /\ rowIdx < Len(AppRows)
  /\ colIdx < Len(AppRows[rowIdx + 1].cells)
  /\ InPlace([AppRows EXCEPT ![rowIdx + 1].cells[colIdx + 1].value =
                TypedValue(colIdx, value)])
  /\ UNCHANGED << wden, editFrame >>

\* handleUpdateCellStyle(rowIdx, colIdx, style), an unset field of style
\* being 0: a font size scales the font size of every cell of every row
\* by style.fontSize / oldFontSize (kept to the hundredth of a
\* millimetre), a font weight is stored in the cell
handleUpdateCellStyle(rowIdx, colIdx, style) ==
  LET getBaseSize(idx) == IF idx >= 7 THEN numericFontSize ELSE standardFontSize
      currentCell == AppRows[rowIdx + 1].cells[colIdx + 1]
      oldFontSize == IF currentCell.style.fontSize # 0
                     THEN currentCell.style.fontSize ELSE getBaseSize(colIdx)
      base(cell, cIdx) == IF cell.style.fontSize # 0
                          THEN cell.style.fontSize ELSE getBaseSize(cIdx)
      sized == IF style.fontSize = 0 THEN AppRows
               ELSE [r \in 1..Len(AppRows) |->
                 [AppRows[r] EXCEPT !.cells = [c \in 1..Len(@) |->
                   [@[c] EXCEPT !.style.fontSize =
                      (base(AppRows[r].cells[c], c - 1) * style.fontSize)
                        \div oldFontSize]]]]
      weighted == IF style.fontWeight = 0 THEN sized
                  ELSE [sized EXCEPT ![rowIdx + 1].cells[colIdx + 1].style.fontWeight =
                          style.fontWeight]
  IN  /\ BetweenTasks
      /\ rowIdx < Len(AppRows)
      /\ colIdx < Len(AppRows[rowIdx + 1].cells)
      /\ \A r \in 1..Len(sized) : \A c \in 1..Len(sized[r].cells) :
           sized[r].cells[c].style.fontSize <= MaxFontSize
      /\ InPlace(weighted)
      /\ UNCHANGED << wden, editFrame >>

\* the buttons of the property panel explored: Regular, Bold, plus
PanelButtons == {"regular", "bold", "plus"}

\* what the property panel hands to onUpdateStyle for a cell: the weight
\* 400 or 700, or the font size shown plus 0.1 mm, 20 mm at most
PanelStyle(rowIdx, colIdx, button) ==
  LET cell == AppRows[rowIdx + 1].cells[colIdx + 1]
      currentFontSize == IF cell.style.fontSize # 0 THEN cell.style.fontSize
                         ELSE IF colIdx >= 7 THEN 380 ELSE 310
      larger == IF currentFontSize + 10 < 2000 THEN currentFontSize + 10 ELSE 2000
  IN  IF rowIdx >= Len(AppRows) THEN NoStyle
      ELSE IF button = "regular" THEN [NoStyle EXCEPT !.fontWeight = 400]
      ELSE IF button = "bold" THEN [NoStyle EXCEPT !.fontWeight = 700]
      ELSE [NoStyle EXCEPT !.fontSize = larger]

\* the cell edited (row and column, 0-based): the period of the first row
EditedCells == {<<0, 10>>}

\* what is typed into it: a range of years with its abbreviation
EditedValues ==
  {<<"2", "0", "2", "4", "-", "2", "0", "2", "5", " ", "G", "G", ".">>}

\* the column whose right edge is dragged during the session
SessionResized == {3}

\* the export of the session: the button is clicked once
ExportOnce == renderNo = 0 /\ ExportStart

NextSession ==
  \/ ExportOnce
  \/ \E v \in Variants, o \in Outcomes : Respond(v, o)
  \/ DrawFirstHeader
  \/ DrawRow
  \/ Save
  \/ handleAddRow
  \/ \E rowIdx \in DeletedRows : handleDeleteRow(rowIdx)
  \/ \E colIdx \in SessionResized, deltaPercent \in Drags :
       handleResizeColumn(colIdx, deltaPercent)
  \/ \E cell \in EditedCells, value \in EditedValues :
       handleUpdateCell(cell[1], cell[2], value)
  \/ \E cell \in EditedCells, button \in PanelButtons :
       handleUpdateCellStyle(cell[1], cell[2], PanelStyle(cell[1], cell[2], button))

SpecSession == InitEdit /\ [][NextSession]_vars


Next ==
  \/ ExportStart
  \/ \E v \in Variants, o \in Outcomes : Respond(v, o)
  \/ DrawFirstHeader
  \/ DrawRow
  \/ Save

Spec == Init /\ [][Next]_vars

\* data.rows.forEach goes on to its next row (the step of DrawRow, seen on
\* the position of the loop alone)
RowAdvance == pc = "rows" /\ ri <= Len(data.rows) /\ ri' = ri + 1

\* every pending fetch settles, and the synchronous layout code runs on
Fairness ==
  /\ WF_vars(\E v \in Variants, o \in Outcomes : Respond(v, o))
  /\ WF_vars(DrawFirstHeader)
  /\ WF_ri(RowAdvance)
  /\ WF_vars(Save)

SpecLive == Spec /\ Fairness

(***************************************************************************)
(* Exports of documents whose columns were resized in the editor.          *)
(***************************************************************************)
\* how far the right edge of a column was dragged (percent)
HeaderDrags == {-100, -1, 1, 100}

ResizedDocuments ==
  {[columns |-> ResizedBy(INITIAL_COLUMNS, INITIAL_UNIT, colIdx, deltaPercent),
    rows |-> <<TotalRow, BodyRow>>] :
     colIdx \in 0..(SchemaColumns - 2), deltaPercent \in HeaderDrags}

InitResized ==
  /\ data \in ResizedDocuments
  /\ wden = INITIAL_UNIT
  /\ faults = 0
  /\ ExportIdle
  /\ text = <<>>
  /\ once = <<>>
  /\ twice = <<>>
  /\ fpc = 0

SpecResized == InitResized /\ [][Next]_vars

(***************************************************************************)
(* Properties.                                                             *)
(***************************************************************************)
EvIdx(t) == {k \in DOMAIN events : events[k].t = t}

\* the heights of the rows drawn, added up
RECURSIVE RowsHeight(_)
RowsHeight(k) ==
  IF k = 0 THEN 0
  ELSE (IF events[k].t = "R" THEN events[k].h ELSE 0) + RowsHeight(k - 1)

\* C1: once the first header is drawn, every page of the document carries
\* exactly one header, and on every page the header is drawn before any
\* row of that page.
HeaderOncePerPage ==
  pc \in {"rows", "done"} =>
    \A p \in 1..pages :
      /\ Cardinality({k \in EvIdx("H") : events[k].page = p}) = 1
      /\ \A k \in EvIdx("R") : events[k].page = p =>
           \E j \in EvIdx("H") : j < k /\ events[j].page = p

\* a document of three pages has been saved
HeaderOnThreePages == pc = "done" /\ pages = 3

\* C2: the drawing starts with the header at the top margin; rows are
\* placed in document order with the height measured for them; a page
\* break stands before a row exactly when the position plus the row height
\* exceeds 297 - 15 - 5 mm; a break is followed at once by the header at
\* the top margin and then by the pending row right under it; a header
\* other than the first follows a break; the end is the last event.
BreakExactlyWhenOverflow ==
  /\ events # <<>> => events[1].t = "H" /\ events[1].page = 1
                      /\ events[1].y = 1500
  /\ \A k \in DOMAIN events :
       LET e == events[k] IN
       /\ e.t = "H" /\ k > 1 => events[k - 1].t = "B"
       /\ e.t = "B" =>
            /\ k + 2 <= Len(events)
            /\ events[k + 1].t = "H" /\ events[k + 1].y = 1500
            /\ events[k + 1].page = e.page
            /\ events[k + 2].t = "R" /\ events[k + 2].y = 1500 + 1400
            /\ e.page = events[k - 1].page + 1
       /\ e.t = "R" =>
            LET broken == events[k - 1].t = "H" /\ k > 2
                before == IF broken THEN events[k - 3] ELSE events[k - 1]
            IN  /\ e.row = Cardinality({j \in EvIdx("R") : j <= k})
                /\ \E m \in measured : m.row = data.rows[e.row] /\ m.h = e.h
                /\ e.from = before.y + before.h
                /\ broken <=> (e.from + e.h > 29700 - 1500 - 500)
                /\ ~broken => e.y = e.from
                /\ e.page = events[k - 1].page
       /\ e.t = "D" => k = Len(events) /\ Cardinality(EvIdx("R")) = Len(data.rows)
       /\ k < Len(events) => e.t # "D"

\* a saved document in which one row was placed after a page break and
\* another right under the row before it
BreakAndNoBreak ==
  /\ pc = "done"
  /\ \E k \in EvIdx("R") : events[k - 1].t = "H" /\ k > 2
  /\ \E k \in EvIdx("R") : events[k - 1].t = "R"

\* C3: when the heights of the rows of a saved document add up to more
\* than the body of one page (297 - 2 * 15 - 5 mm less the header), the
\* document has at least two pages, the first thing drawn on every page is
\* a header, and every row of the document is drawn exactly once, on one
\* page, in document order.
LongDocumentPaginates ==
  pc = "done" /\ RowsHeight(Len(events)) > 29700 - 2 * 1500 - 500 - 1400 =>
    /\ pages >= 2
    /\ \A p \in 1..pages :
         LET onPage == {k \in DOMAIN events : events[k].page = p /\ events[k].t # "B"}
         IN  onPage # {} /\ events[CHOOSE k \in onPage : \A j \in onPage : k <= j].t = "H"
    /\ \A i \in 1..Len(data.rows) :
         Cardinality({k \in EvIdx("R") : events[k].row = i}) = 1
    /\ \A j, k \in EvIdx("R") :
         j < k => /\ events[j].row < events[k].row
                  /\ events[j].page <= events[k].page

\* a saved document with a total row whose rows are taller than one page
LongDocumentWithTotal ==
  /\ pc = "done"
  /\ RowsHeight(Len(events)) > 29700 - 2 * 1500 - 500 - 1400
  /\ \E i \in 1..Len(data.rows) : data.rows[i].isTotal

\* C4: normalising the result of formatRussianText again changes nothing.
Idempotent == fpc = 2 => twice = once

\* C5: each variant asks for its sources in list order, one at a time: the
\* j-th fetch is of source j, only the last fetch can be pending, every
\* fetch before the last one threw or had a non-success status, and the
\* bytes returned are those of the last fetch, the first one that was
\* answered with success.
SourcesInOrder ==
  \A v \in Variants :
    LET q == req[v] IN
    /\ \A j \in 1..Len(q) : q[j].url = j
    /\ Len(q) <= 2
    /\ \A j \in 1..(Len(q) - 1) : q[j].outcome \in {"throw", "status"}
    /\ result[v].st = "pending" <=> (q # <<>> /\ q[Len(q)].outcome = "pending")
    /\ result[v].st = "resolved" =>
         /\ result[v].url = Len(q)
         /\ q[Len(q)].outcome = result[v].bytes
         /\ result[v].bytes \in {"small", "ok"}
    /\ result[v].st = "rejected" =>
         Len(q) = 2 /\ q[2].outcome \in {"throw", "status"}

\* both variants are in flight at once, each at a different source
BothInFlight ==
  /\ result["regular"].st = "pending" /\ Len(req["regular"]) = 2
  /\ result["bold"].st = "pending" /\ Len(req["bold"]) = 1

\* C6: a source whose fetch threw, whose status was not a success or
\* whose payload was undersized never supplies the bytes returned, and
\* after it the next source is tried (or, after the last, the variant
\* fails).
UndersizedIsFailure ==
  \A v \in Variants : \A j \in 1..Len(req[v]) :
    req[v][j].outcome \in {"throw", "status", "small"} =>
      /\ ~(result[v].st = "resolved" /\ result[v].url = req[v][j].url)
      /\ j < Len(req[v]) \/ result[v].st = "rejected"

\* C7: when a variant has run out of sources or the layout threw, the
\* export has failed, nothing was saved and exactly one alert was shown;
\* an export that has not failed shows no alert, and only a finished one
\* has saved, once.
FailsAsAWhole ==
  /\ (pc = "failed" \/ \E v \in Variants : result[v].st = "rejected") =>
       pc = "failed" /\ saved = 0 /\ alerts = 1
  /\ pc # "failed" => alerts = 0
  /\ saved = (IF pc = "done" THEN 1 ELSE 0)

\* both variants ran out of sources
BothVariantsFailed ==
  pc = "failed" /\ \A v \in Variants : result[v].st = "rejected"

\* C8: a page, header or row exists only when both variants have
\* resolved; when a variant failed nothing is drawn.
LayoutAfterBothFonts ==
  /\ (pages > 0 \/ events # <<>> \/ pc \in {"header", "rows", "done"}) =>
       \A v \in Variants : result[v].st = "resolved"
  /\ (\E v \in Variants : result[v].st = "rejected") =>
       pages = 0 /\ events = <<>>

\* one variant resolved with a font file, the other ran out of sources
OneFontOnly ==
  /\ result["regular"].st = "resolved" /\ result["regular"].bytes = "ok"
  /\ result["bold"].st = "rejected"
  /\ pc = "failed"

\* C9: a second export of the same document draws the same headers, page
\* breaks and rows at the same pages and positions as the one before.
SameDrawingTwice ==
  pc = "done" /\ renderNo >= 2 /\ prevEvents # <<>> => events = prevEvents

\* a document of more than one page was exported twice
PaginatedTwice ==
  pc = "done" /\ renderNo >= 2 /\ prevEvents # <<>> /\ pages >= 2

\* C10: two measurements of the same row with the same body index return
\* the same height, whatever was drawn in between.
MeasurementPure ==
  \A m1, m2 \in measured :
    m1.row = m2.row /\ m1.bIdx = m2.bIdx => m1.h = m2.h

\* the column widths of the document add up to 100 percent
SumWidths == SumSeq([i \in 1..Len(data.columns) |-> data.columns[i].width])

\* C11: after any sequence of editor operations on the initial document
\* every row has as many cells as there are columns, every column width is
\* non-negative and the column widths add up to 100.
DocumentInvariant ==
  /\ \A r \in 1..Len(data.rows) : Len(data.rows[r].cells) = Len(data.columns)
  /\ \A c \in 1..Len(data.columns) : data.columns[c].width >= 0
  /\ SumWidths = 100 * wden

\* getRowNumber: the 1-based position of row r among the non-total rows
getRowNumber(r) == Cardinality({i \in 1..r : ~data.rows[i].isTotal})

\* C12: on every non-total row whose leading cell holds AUTO the number
\* drawn in the circle is the position of the row among the non-total rows
\* of the document: total rows take no number and the count goes on
\* across page breaks.
NumberedInOrder ==
  \A k \in DOMAIN drawn :
    LET row == data.rows[drawn[k].row]
    IN  ~row.isTotal /\ row.cells[1].value = AUTO =>
          /\ drawn[k].circle
          /\ drawn[k].lead = toString(getRowNumber(drawn[k].row))

\* a total row stands between two numbered rows and the second of them
\* was drawn on a later page than the first
NumberedAcrossPages ==
  /\ pc = "done"
  /\ \E a, t, b \in DOMAIN drawn :
       /\ a < t /\ t < b
       /\ drawn[t].fill = "total"
       /\ drawn[a].circle /\ drawn[b].circle
       /\ drawn[a].page < drawn[b].page
       /\ drawn[b].lead = <<"2">>

\* C13: a render never changes the document it was given: no step of
\* exportToPDF, up to the save or the failure, changes a column title or
\* width, a row's isTotal flag or a cell's value or style.
InputUntouched == [][data' = data /\ wden' = wden]_vars

\* an export of a document of two rows or more has saved its file
RenderFinished == pc = "done" /\ saved = 1 /\ Len(drawn) >= 2

\* the export has ended: the file was saved, or the error was reported
Ended == (pc = "done" /\ saved = 1) \/ (pc = "failed" /\ alerts = 1)

\* C14: when every fetch settles, every export ends with the file saved or
\* the error reported; a variant issues at most one request per listed
\* source and every row is placed at most once.
Terminates ==
  /\ [](\A v \in Variants : Len(req[v]) <= NumSources)
  /\ [](\A r \in 1..Len(data.rows) :
          Cardinality({k \in DOMAIN drawn : drawn[k].row = r}) <= 1)
  /\ (pc \in {"fonts", "header", "rows"} ~> Ended)

\* the file was saved after a variant had to go to its last source
SavedAfterFallback ==
  pc = "done" /\ saved = 1 /\ \E v \in Variants : Len(req[v]) = NumSources

\* the number of line feeds of a text
LineBreaks(s) == Len(SelectSeq(s, LAMBDA c : c = "nl"))

\* the text is one hyphen with nothing but white space around it
HyphenAlone(s) ==
  \E i \in 1..Len(s) : s[i] = "-" /\ \A j \in 1..Len(s) : j # i => s[j] \in WS

\* C15: formatRussianText keeps the explicit line breaks: every line feed
\* of the text is still there in the text returned, none is replaced or
\* deleted (the texts that are one hyphen, which come back as the en-dash
\* alone, are left out here).
LineBreaksKept ==
  fpc >= 1 /\ ~HyphenAlone(text) => LineBreaks(once) = LineBreaks(text)

\* C16: a text that is one hyphen once trimmed, whatever white space is
\* around it, comes back as the en-dash alone.
LoneHyphen == fpc >= 1 /\ HyphenAlone(text) => once = <<"nd">>

\* a hyphen with white space on both sides was normalised
PaddedHyphen ==
  /\ fpc >= 1
  /\ HyphenAlone(text)
  /\ text[1] \in WS /\ text[Len(text)] \in WS

\* the maximal runs of digits of a text, as << first, last >> positions
DigitRunsOf(s) ==
  {<<i, RunEnd(s, i, Digits)>> :
     i \in {k \in 1..Len(s) : s[k] \in Digits /\ (k = 1 \/ s[k - 1] \notin Digits)}}

RECURSIVE Triples(_)
\* the digits r in groups of three from the right, no-break space between
Triples(r) ==
  IF Len(r) <= 3 THEN r
  ELSE Triples(SubSeq(r, 1, Len(r) - 3)) \o <<"nb">> \o SubSeq(r, Len(r) - 2, Len(r))

\* four digits that begin with 19 or 20
YearShaped(r) ==
  Len(r) = 4 /\ SubSeq(r, 1, 2) \in {<<"1", "9">>, <<"2", "0">>}

\* C17: every run of four or more digits of the text comes out grouped in
\* threes from the right with a no-break space between the groups, but for
\* a run of exactly four digits that begins with 19 or 20, which comes out
\* as it is.
ThousandsGrouped ==
  fpc >= 1 =>
    \A run \in DigitRunsOf(text) :
      LET r == SubSeq(text, run[1], run[2])
      IN  Len(r) >= 4 =>
            Includes(once, IF YearShaped(r) THEN r ELSE Triples(r))

\* the positions of text where c stands between two digits
BetweenDigits(s, c) ==
  {i \in 2..(Len(s) - 1) :
     s[i] = c /\ s[i - 1] \in Digits /\ s[i + 1] \in Digits}

\* C18: the digits that follow a decimal comma are not grouped: the run
\* that stands right after a comma between two digits comes out as it is.
FractionKept ==
  fpc >= 1 =>
    \A i \in BetweenDigits(text, ",") :
      Includes(once, <<",">> \o SubSeq(text, i + 1, RunEnd(text, i + 1, Digits)))

\* the position where the run of digits that ends at position i begins
RECURSIVE RunStart(_, _)
RunStart(s, i) ==
  IF i > 1 /\ s[i - 1] \in Digits THEN RunStart(s, i - 1) ELSE i

\* the hyphens of s that stand between two groups of 2 to 4 digits each
RangeHyphens(s) ==
  {i \in BetweenDigits(s, "-") :
     /\ i - RunStart(s, i - 1) \in 2..4
     /\ RunEnd(s, i + 1, Digits) - i \in 2..4}

\* the hyphens of s with white space on both sides
SpacedHyphens(s) ==
  {i \in 2..(Len(s) - 1) : s[i] = "-" /\ s[i - 1] \in WS /\ s[i + 1] \in WS}

TokenAfter(s, i) == RunEnd(s, i, WS) + 1

\* C20: every numero sign of the text is followed in the result by exactly
\* one no-break space and then by the token that followed it in the text,
\* whatever white space separated them and whatever the token is.
NumeroBound ==
  fpc >= 1 =>
    \A i \in 1..Len(text) :
      text[i] = "No" /\ TokenAfter(text, i + 1) <= Len(text) =>
        Includes(once, <<"No", "nb", text[TokenAfter(text, i + 1)]>>)

\* C27: every row drawn lies inside the page body: its bottom edge is at
\* most 297 - 15 - 5 mm down the page, also when it is the first row of a
\* page begun by a page break.
RowInsideBody ==
  \A k \in EvIdx("R") : events[k].y + events[k].h <= 29700 - 1500 - 500

\* C30: a page break is made only when the page being left holds a row
\* under its header, so no page is left with a header and no rows.
NoHeaderOnlyPage ==
  \A k \in EvIdx("B") :
    \E j \in EvIdx("R") : j < k /\ events[j].page = events[k].page - 1

\* the positions of the character c in s
Positions(s, c) == {k \in 1..Len(s) : s[k] = c}

\* s holds one parenthetical span: one opening parenthesis, one closing
\* parenthesis after it, and something in between
OneParenthetical(s) ==
  /\ Cardinality(Positions(s, "(")) = 1
  /\ Cardinality(Positions(s, ")")) = 1
  /\ \E i \in Positions(s, "(") : \E j \in Positions(s, ")") : j > i + 1

\* C24: for a parenthetical span of the text, the white space right
\* before the opening parenthesis comes out non-breaking, every hyphen
\* inside comes out as a non-breaking hyphen, all white space inside
\* comes out as no-break spaces, and the content is wrapped in word
\* joiners, whatever the length of the content.
ParenProtected ==
  fpc >= 1 /\ OneParenthetical(text) =>
    LET i == CHOOSE k \in 1..Len(once) : once[k] = "("
        j == CHOOSE k \in 1..Len(once) : once[k] = ")"
        p == CHOOSE k \in 1..Len(text) : text[k] = "("
    IN  /\ p > 1 /\ text[p - 1] \in WS => i > 1 /\ once[i - 1] = "nb"
        /\ \A k \in (i + 1)..(j - 1) : once[k] \notin {"-", " ", "nl"}
        /\ once[i + 1] = "wj" /\ once[j - 1] = "wj"

\* C25: the leading-abbreviation rule only converts white space that is
\* there: a text of letters and dots alone, in which no white space
\* follows any dot, comes out as it is.
LeadInsertsNothing ==
  fpc >= 1 /\ (\A k \in 1..Len(text) : text[k] \in {"G", "V", "."}) =>
    once = text

\* what the text of a drawn cell requires of the height of its row: the
\* lines counted, times the font size, times the line-height factor 1.0,
\* plus the vertical padding 3 x 0.8 mm
TextRequirement(cell) == cell.counted * cell.fs + 240

\* what the circle of a drawn row requires: its diameter plus 2.5 x 0.8 mm
CircleRequirement(row) ==
  IF row.cells # <<>> /\ row.cells[1].circleSize # 0
  THEN {row.cells[1].circleSize + 200} ELSE {}

\* C22: the height of a row is the largest of the text requirements of
\* its cells and, for a body row, the circle requirement, and at least
\* 6 mm; so the circle is never larger than the row, and a row in which
\* every cell has at least as many lines as in another row of the same
\* font sizes and circle is at least as high.
HeightIsMaxRequirement ==
  /\ \A k \in DOMAIN drawn :
       LET row == drawn[k] IN
       /\ row.h = Max({600} \cup CircleRequirement(row)
                      \cup {TextRequirement(row.cells[c]) : c \in DOMAIN row.cells})
       /\ row.cells # <<>> => row.cells[1].circleSize <= row.h
  /\ \A j, k \in DOMAIN drawn :
       LET a == drawn[j]
           b == drawn[k]
       IN  /\ DOMAIN a.cells = DOMAIN b.cells
           /\ CircleRequirement(a) = CircleRequirement(b)
           /\ \A c \in DOMAIN a.cells :
                /\ a.cells[c].fs = b.cells[c].fs
                /\ a.cells[c].counted <= b.cells[c].counted
           => a.h <= b.h

\* a saved document with a row as high as its circle requires and a row
\* as high as the text of a cell of several lines requires
TextAndCircleDecide ==
  /\ pc = "done"
  /\ \E k \in DOMAIN drawn : {drawn[k].h} = CircleRequirement(drawn[k])
  /\ \E k \in DOMAIN drawn : \E c \in DOMAIN drawn[k].cells :
       /\ drawn[k].cells[c].counted > 1
       /\ drawn[k].h = TextRequirement(drawn[k].cells[c])
       /\ {drawn[k].h} # CircleRequirement(drawn[k])

\* the number of body rows of the document before row r
BodyRowsBefore(r) == Cardinality({i \in 1..(r - 1) : ~data.rows[i].isTotal})

\* C23: a total row is filled with the total background wherever it
\* stands; a body row is tinted exactly when an odd number of body rows
\* stands before it in the document, total rows and page breaks not
\* counting.
FillByBodyParity ==
  \A k \in DOMAIN drawn :
    drawn[k].fill = IF data.rows[drawn[k].row].isTotal THEN "total"
                    ELSE IF BodyRowsBefore(drawn[k].row) % 2 = 1 THEN "odd"
                    ELSE "none"

\* a saved document in which a tinted row follows a total row and a page
\* break, and a total row follows a body row
TintedAfterTotalAndBreak ==
  /\ pc = "done"
  /\ \E i, j, k \in DOMAIN drawn :
       /\ i < j /\ j < k
       /\ drawn[i].fill = "none"
       /\ drawn[j].fill = "total"
       /\ drawn[k].fill = "odd" /\ drawn[k].page > drawn[i].page

\* the rectangles q, in the order drawn, stand side by side from the left
\* margin to the right margin
SideBySide(q) ==
  /\ q # <<>>
  /\ q[1].x = 0
  /\ \A k \in 1..(Len(q) - 1) : q[k + 1].x = q[k].x + q[k].w
  /\ q[Len(q)].x + q[Len(q)].w = contentWidth * 100 * wden

\* C21: when the column widths add up to 100, the resolved widths add up
\* to the content width, and the header cells fill the header exactly:
\* along its upper and along its lower edge they stand side by side from
\* margin to margin, each reaches from top to bottom but for the group
\* cell, which is as wide as columns 8 and 9 together and stands on their
\* two cells.
HeaderTiles ==
  headerCells # <<>> /\ SumWidths = 100 * wden =>
    LET upper == SelectSeq(headerCells, LAMBDA c : c.y = 0)
        lower == SelectSeq(headerCells, LAMBDA c : c.y + c.h = 1400)
        group == SelectSeq(headerCells, LAMBDA c : c.y = 0 /\ c.h < 1400)
        under == SelectSeq(headerCells, LAMBDA c : c.y > 0)
    IN  /\ SumSeq([i \in 1..Len(data.columns) |->
                     data.columns[i].width * contentWidth])
             = contentWidth * 100 * wden
        /\ SideBySide(upper)
        /\ SideBySide(lower)
        /\ Len(upper) = 12 /\ Len(lower) = 13 /\ Len(group) = 1 /\ Len(under) = 2
        /\ \A k \in 1..Len(lower) : lower[k].w = data.columns[k].width * contentWidth
        /\ group[1].w = (data.columns[9].width + data.columns[10].width) * contentWidth
        /\ group[1].x = under[1].x
        /\ \A k \in 1..2 : under[k].y = group[1].h

\* a saved document whose ninth column was made narrower in the editor
HeaderOfResized ==
  /\ pc = "done"
  /\ headerCells # <<>>
  /\ data.columns[9].width < INITIAL_COLUMNS[9].width

\* the weight the editor shows a cell in: that of its style or, when
\* unset, bold for the leading cell of a body row, for the columns from 7
\* on and for a total row
EditorBold(isTotal, style, i) ==
  IF style.fontWeight # 0 THEN style.fontWeight = 700
  ELSE (i = 0 /\ ~isTotal) \/ i >= 7 \/ isTotal

\* C26: in an export of the document as it was called with, every cell is
\* drawn in the font weight, the font size and with
\* the circle diameter of its own style where that is set, and in the
\* column default (bold or regular as the editor shows it, 3.8 mm from
\* column 7 on and 3.1 mm before, 1.6 times the font size) only where it
\* is unset.
StyleWins ==
  data = atCall.data =>
  \A k \in DOMAIN drawn : \A c \in DOMAIN drawn[k].cells :
    LET cell == drawn[k].cells[c]
        i == c - 1
    IN  /\ cell.bold = EditorBold(drawn[k].isTotal, cell.style, i)
        /\ cell.fs = IF cell.style.fontSize # 0 THEN cell.style.fontSize
                     ELSE IF i >= 7 THEN 380 ELSE 310
        /\ cell.circleSize # 0 =>
             cell.circleSize = IF cell.style.circleSize # 0
                               THEN cell.style.circleSize
                               ELSE (cell.fs * 16) \div 10

\* C28: in an export of the document as it was called with, the text
\* drawn in a cell fits the row sized for it: renderCellText
\* draws at most as many lines as calculateRowHeight counted for the cell,
\* and the lines drawn, at the font size of the cell, are not higher than
\* the row.
DrawnTextFits ==
  data = atCall.data =>
  \A k \in DOMAIN drawn : \A c \in DOMAIN drawn[k].cells :
    LET cell == drawn[k].cells[c]
    IN  /\ cell.lines <= cell.counted
        /\ cell.lines * cell.fs <= drawn[k].h

\* C29: what exportToPDF lays out is the document as it was when
\* exportToPDF was called, whatever was edited while the fonts were
\* awaited.
ExportsDocumentAtCall ==
  pc \in {"header", "rows"} => data = atCall.data /\ wden = atCall.wden

====
